---- MODULE Spec2Model ----
(***************************************************************************)
(* Account confirmation and authentication protocol of the comment board:  *)
(* the POST handlers of src/util/router.mjs (processSignupRoute,            *)
(* processConfirmEmailRoute, processLoginRoute, and the '/add+comment'      *)
(* branch of checkPostRoute with processCommentPost) running as             *)
(* interleaved async callbacks over the Login / ECode / Nonce tables.       *)
(*                                                                         *)
(* Every `await` of a handler is a point where another request's callback   *)
(* may run, so each handler is cut into one action per await.  The tables   *)
(* live in the storage collaborator (../db/*.mjs); its operations are       *)
(* modelled by their call contract.  Time is counted in abstract ticks.     *)
(***************************************************************************)
EXTENDS Integers, Sequences, FiniteSets, TLC

(* ------------------------------ bounds -------------------------------- *)
\* requests the server accepts in one behaviour
MaxReqs == 2

(* --------------------------- input universe --------------------------- *)
Names == {"al", "bo"}
Emails == {"a@b.com", "c@d.com"}
SignupEmails == {"a@b.com"}
SignupPwds == {"p1"}
LoginPwds == {"p1", "p2"}
Codes == {"00000001", "00000002"}
\* values the sterilizers do not return unchanged
BadName == "<al>"
BadEmail == "a@@b"
BadPwd == "p 1"
BadCode == "1x"
BadNonce == "sha;"
\* a well-formed Confirm-Nonce value that no signup issued
ForgedNonce == "sha(forged)"
\* a cookie or a JSON field the request does not carry
Absent == "<absent>"
\* Access-Token values that fail validation: a signature that does not verify,
\* an expiration in the past, a signed token whose claims are empty
BadSigToken == "jwt(forged)"
ExpiredToken == "jwt(expired)"
EmptyClaimsToken == "jwt()"
\* bodies of POST /add+comment: a comment, an empty comment, not JSON
CommentBodies == {"comment", "empty", "garbage"}

(* ---------------------- external pure collaborators ------------------- *)
\* sterilizer.mjs: a well-formed value comes back unchanged; from any other
\* the offending characters are stripped, which may leave nothing
sterilizeBasicString(s) ==
    IF s \in Names \cup LoginPwds THEN s
    ELSE IF s = BadName THEN "al"
    ELSE IF s = BadPwd THEN "p1"
    ELSE ""
sterilizeEmail(s) == IF s \in Emails THEN s ELSE ""
sterilizeECode(s) == IF s \in Codes THEN s ELSE IF s = BadCode THEN "1" ELSE ""
sterilizeNonce(s) ==
    IF s = BadNonce THEN "sha" ELSE IF s \in {Absent, ""} THEN "" ELSE s

\* new Date(ms).toISOString()
toISOString(ms) == "T" \o ToString(ms)
\* code-generator.mjs: one-way hash of the secret combined with the expiration
hashNonce(secret, iso) == "sha(" \o secret \o "|" \o iso \o ")"
\* faulty variant: the expiration is left out of the comparison
checkHashAnyExpiration(pub, secret, iso) ==
    \E t \in 0..9 : pub = hashNonce(secret, toISOString(t))
checkHash(pub, secret, iso) == pub = hashNonce(secret, iso)
\* code-generator.mjs randomCharString(16): the n-th draw; draws never repeat
randomCharString(n) == "r" \o ToString(n)
\* jwtokenizer.mjs
createJWT(id, name, email) ==
    "jwt(" \o ToString(id) \o "," \o name \o "," \o email \o ")"

(* ------------------------------ constants ----------------------------- *)
\* db-nonce.mjs createNonce: expires_at = now + NonceWindow
NonceWindow == 1
\* db-ecode.mjs: first id of the ECode table (its ids are unrelated to Login ids)
FirstEcodeId == 101
\* nameExp.setDate(nameExp.getDate() + 5)
FiveDays == 5
\* while(go) stops retrying once `it > 3`
RetryLimit == 3
\* let jwtExp = Date.now() + 1
JwtLifetime == 1
\* if(req.socket.bytesRead > 891)
CommentCap == 891

\* any two accepted requests may overlap
MaxInFlight == MaxReqs
\* the clock runs until one tick past a nonce's expiration
MaxTime == NonceWindow + 1

(* ------------------------------- state -------------------------------- *)
VARIABLES
    logins,      \* Login table: sequence of rows, id = index
    ecodes,      \* ECode table: set of rows [id, login_id, code]
    nonces,      \* Nonce table: set of rows [ecode_id, secret_code, exp]
    nextEcodeId, \* next id of the ECode table
    rand,        \* number of randomCharString draws so far
    now,         \* Date.now()
    started,     \* requests accepted so far
    reqs,        \* handlers suspended at an await
    last,        \* the handler that returned in the step just taken
    issued,      \* what each signup handed to its client: cookies and code
    updates,     \* per Login id: times updateLoginConfirmed took effect
    jwts         \* per Login id: session tokens confirm-email issued

vars == <<logins, ecodes, nonces, nextEcodeId, rand, now, started, reqs, last,
          issued, updates, jwts>>
db == <<logins, ecodes, nonces, nextEcodeId, rand, updates>>

(* --------------------------- values in flight -------------------------- *)
NoThrow == [type |-> "none", value |-> "", login_id |-> 0]
\* throw '<string>'
Str(s) == [type |-> "string", value |-> s, login_id |-> 0]
\* an Error-like object carrying a message
Obj(msg, id) == [type |-> "object", value |-> msg, login_id |-> id]
\* function ExpiredNonceException(val)
ExpiredNonceException(val) == Obj("Expired-Nonce", val)
\* e.message: a string primitive has no such property
Undefined == "undefined"
Message(e) == IF e.type = "object" THEN e.value ELSE Undefined

NoResp == [status |-> 0, body |-> "", cookies |-> {}]
Cookie(n, v, x) == [name |-> n, value |-> v, expires |-> x]

NoData == [found |-> FALSE, login_id |-> 0, login_name |-> "", login_email |-> "",
           ecode_id |-> 0, nonce_code |-> "", nonce_exp |-> 0]

NoReq == [rid |-> 0, kind |-> "none", pc |-> "none", name |-> "", email |-> "",
          pwd |-> "", nonce |-> "", code |-> "", loginId |-> 0, ecodeId |-> 0,
          it |-> 0, tries |-> 0, genECode |-> "", verifiedData |-> NoData,
          checkedAt |-> 0, seen201 |-> {}, e |-> NoThrow, unhandled |-> FALSE,
          bytesRead |-> 0, token |-> "", body |-> "", userId |-> 0, mailed |-> FALSE,
          trace |-> <<>>, rejected |-> "", resp |-> NoResp]

NewReq(kind, rid) == [NoReq EXCEPT !.kind = kind, !.rid = rid]

(* ------------------------------ responses ----------------------------- *)
\* faulty variant: a response that has ended is written again
forwardContentTwice(resp, status, body, cookies) ==
    [status |-> status, body |-> body, cookies |-> cookies]

\* forwardContent: once the response has ended, setHeader throws and the
\* function's own try/catch swallows it, so a second call changes nothing
forwardContent(resp, status, body, cookies) ==
    IF resp.status # 0 THEN resp
    ELSE [status |-> status, body |-> body, cookies |-> cookies]

declineRoute(resp, status, message) == forwardContent(resp, status, message, {})

\* sendClearedCookies(status): its body names `res`, which is bound neither in
\* the function nor in the module, so evaluating the call's arguments throws a
\* ReferenceError: nothing is written to the response and the throw leaves the
\* route's catch block as an unhandled rejection
sendClearedCookies(r, status) == [r EXCEPT !.unhandled = TRUE]

(* ---------------------------- storage calls --------------------------- *)
\* db-login.mjs createLogin: the new row's id, or no id when the name is taken
LoginNameFree(name) == \A i \in 1..Len(logins) : logins[i].name # name
\* db-login.mjs getConfirmedLogin(name, pwd)
ConfirmedLoginIds(name, pwd) ==
    {i \in 1..Len(logins) : /\ logins[i].name = name
                            /\ logins[i].pwd = pwd
                            /\ logins[i].confirmed}
\* db-login.mjs updateLoginConfirmed(loginId)
updateLoginConfirmed(login_id) ==
    [i \in 1..Len(logins) |->
        IF i = login_id THEN [logins[i] EXCEPT !.confirmed = TRUE] ELSE logins[i]]
\* db-ecode.mjs createECode(code, loginId): inserts when the login exists and
\* the code is not in use
ECodeInsertable(code, loginId) ==
    /\ loginId \in 1..Len(logins)
    /\ \A c \in ecodes : c.code # code
\* db-nonce.mjs deleteNonce(ecodeId)
deleteNonce(ecode_id) == {n \in nonces : n.ecode_id # ecode_id}
\* db-ecode.mjs deleteECode(loginId): the route calls it with the login's id
deleteECode(login_id) == {c \in ecodes : c.login_id # login_id}
\* db-ecode.mjs getEcodeWLoginNonce(code, name, email): join of the three tables
EcodeJoin(code, name, email) ==
    {<<c, n>> \in ecodes \X nonces :
        /\ c.code = code
        /\ n.ecode_id = c.id
        /\ c.login_id \in 1..Len(logins)
        /\ logins[c.login_id].name = name
        /\ logins[c.login_id].email = email}
getEcodeWLoginNonce(code, name, email) ==
    IF EcodeJoin(code, name, email) = {} THEN NoData
    ELSE LET p == CHOOSE q \in EcodeJoin(code, name, email) : TRUE
         IN [found |-> TRUE, login_id |-> p[1].login_id,
             login_name |-> logins[p[1].login_id].name,
             login_email |-> logins[p[1].login_id].email,
             ecode_id |-> p[1].id, nonce_code |-> p[2].secret_code,
             nonce_exp |-> p[2].exp]

(* ------------------------------- Init --------------------------------- *)
\* The tables outlive the server process.  The server starts on the tables
\* that a completed signup of "al" at time 0 leaves behind (SpecEmpty, which
\* starts on empty tables, reaches this state).
EmptyTables ==
    /\ logins = <<>>
    /\ ecodes = {}
    /\ nonces = {}
    /\ nextEcodeId = FirstEcodeId
    /\ rand = 0
    /\ issued = {}
    /\ updates = <<>>
    /\ jwts = <<>>

PendingSignup ==
    /\ logins = <<[name |-> "al", email |-> "a@b.com", pwd |-> "p1",
                   confirmed |-> FALSE]>>
    /\ ecodes = {[id |-> FirstEcodeId, login_id |-> 1, code |-> "00000001"]}
    /\ nonces = {[ecode_id |-> FirstEcodeId, secret_code |-> randomCharString(1),
                  exp |-> NonceWindow]}
    /\ nextEcodeId = FirstEcodeId + 1
    /\ rand = 1
    /\ issued = {[login_id |-> 1, name |-> "al", email |-> "a@b.com",
                  nonce |-> hashNonce(randomCharString(1), toISOString(NonceWindow)),
                  code |-> "00000001", exp |-> NonceWindow]}
    /\ updates = <<0>>
    /\ jwts = <<0>>

Idle ==
    /\ now = 0
    /\ started = 0
    /\ reqs = {}
    /\ last = NoReq

Init == PendingSignup /\ Idle
InitEmpty == EmptyTables /\ Idle

\* a request is accepted while the bounds allow; it gets the lowest free slot
Accept == started < MaxReqs /\ Cardinality(reqs) < MaxInFlight
FreeSlot == CHOOSE k \in 1..MaxInFlight :
                /\ \A q \in reqs : q.rid # k
                /\ \A j \in 1..(k - 1) : \E q \in reqs : q.rid = j

\* the handler of r is suspended again, as r2
Suspend(r, r2) == reqs' = (reqs \ {r}) \cup {r2} /\ last' = NoReq
\* the handler of r returns, as r2
Return(r, r2) == reqs' = reqs \ {r} /\ last' = [r2 EXCEPT !.pc = "done"]

(* ------------------------------ signup -------------------------------- *)
\* the route's catch block
SignupCatch(r, e) ==
    [r EXCEPT !.e = e,
              !.resp = declineRoute(r.resp, 400,
                                    "Name, Email, Password cannot be accepted.")]

\* faulty variant: the password is not compared with its sterilized form
SignupRejectedPwdUnchecked(name, email, pwd) ==
    \/ sterilizeBasicString(name) # name
    \/ sterilizeEmail(email) # email
    \/ sterilizeBasicString(name) = ""
    \/ sterilizeEmail(email) = ""
    \/ sterilizeBasicString(pwd) = ""

SignupRejected(name, email, pwd) ==
    \/ sterilizeBasicString(name) # name
    \/ sterilizeEmail(email) # email
    \/ sterilizeBasicString(pwd) # pwd
    \/ sterilizeBasicString(name) = ""
    \/ sterilizeEmail(email) = ""
    \/ sterilizeBasicString(pwd) = ""

\* req.on("end"): parse, sterilize, call createLogin
SignupStart(name, email, pwd) ==
    /\ Accept
    /\ started' = started + 1
    /\ LET r == [NewReq("signup", FreeSlot) EXCEPT
                    !.name = name, !.email = email, !.pwd = pwd]
       IN IF SignupRejected(name, email, pwd)
          THEN /\ reqs' = reqs
               /\ last' = [SignupCatch(r, Str("Item did not pass standards."))
                              EXCEPT !.pc = "done"]
          ELSE /\ reqs' = reqs \cup {[r EXCEPT !.pc = "createLogin"]}
               /\ last' = NoReq
    /\ UNCHANGED <<db, now, issued, jwts>>

\* createLogin resolves; `loginId == null` is false of every parseInt result,
\* so the handler goes on to the ECode loop whatever came back
SignupCreateLogin(r) ==
    /\ r \in reqs /\ r.kind = "signup" /\ r.pc = "createLogin"
    /\ IF LoginNameFree(r.name)
       THEN /\ logins' = Append(logins, [name |-> r.name, email |-> r.email,
                                         pwd |-> r.pwd, confirmed |-> FALSE])
            /\ updates' = Append(updates, 0)
            /\ jwts' = Append(jwts, 0)
            /\ Suspend(r, [r EXCEPT !.loginId = Len(logins) + 1,
                                    !.pc = "createECode"])
       ELSE /\ UNCHANGED <<logins, updates, jwts>>
            /\ Suspend(r, [r EXCEPT !.loginId = 0, !.pc = "createECode"])
    /\ UNCHANGED <<ecodes, nonces, nextEcodeId, rand, now, started, issued>>

\* one turn of while(go): randomNumericString(8), createECode, the exit test
SignupCreateECode(r, code) ==
    /\ r \in reqs /\ r.kind = "signup" /\ r.pc = "createECode"
    /\ LET ok == ECodeInsertable(code, r.loginId)
           ecodeId == IF ok THEN nextEcodeId ELSE 0
           r2 == [r EXCEPT !.genECode = code, !.ecodeId = ecodeId,
                           !.tries = r.tries + 1]
       IN /\ ecodes' = IF ok
                       THEN ecodes \cup {[id |-> ecodeId, login_id |-> r.loginId,
                                          code |-> code]}
                       ELSE ecodes
          /\ nextEcodeId' = IF ok THEN nextEcodeId + 1 ELSE nextEcodeId
          /\ IF ecodeId # 0 \/ r.it > RetryLimit
             THEN IF ecodeId = 0
                  THEN Return(r, SignupCatch(r2, Str("Ecode was not added.")))
                  ELSE Suspend(r, [r2 EXCEPT !.pc = "createNonce"])
             ELSE Suspend(r, [r EXCEPT !.it = r.it + 1, !.tries = r.tries + 1])
    /\ UNCHANGED <<logins, nonces, rand, now, started, issued, updates, jwts>>

\* randomCharString(16), createNonce, hashNonce, the 200 response
SignupCreateNonce(r) ==
    /\ r \in reqs /\ r.kind = "signup" /\ r.pc = "createNonce"
    /\ LET genNonce == randomCharString(rand + 1)
           nonceExp == now + NonceWindow
           publicNonce == hashNonce(genNonce, toISOString(nonceExp))
           cookieArr == {Cookie("Confirm-Nonce", publicNonce, nonceExp),
                         Cookie("Attempt-Email", r.email, nonceExp),
                         Cookie("Username", r.name, now + FiveDays)}
       IN /\ rand' = rand + 1
          /\ nonces' = nonces \cup {[ecode_id |-> r.ecodeId,
                                     secret_code |-> genNonce, exp |-> nonceExp]}
          /\ issued' = issued \cup {[login_id |-> r.loginId, name |-> r.name,
                                     email |-> r.email, nonce |-> publicNonce,
                                     code |-> r.genECode, exp |-> nonceExp]}
          /\ Suspend(r, [r EXCEPT !.nonce = publicNonce, !.pc = "sendMail",
                            !.resp = forwardContent(r.resp, 200, "", cookieArr)])
    /\ UNCHANGED <<logins, ecodes, nextEcodeId, now, started, updates, jwts>>

\* sendMail resolves with a result, or with none
SignupSendMail(r, sent) ==
    /\ r \in reqs /\ r.kind = "signup" /\ r.pc = "sendMail"
    /\ IF sent
       THEN Return(r, [r EXCEPT !.mailed = TRUE])
       ELSE Return(r, SignupCatch(r, Str("Unable to send email to activate email")))
    /\ UNCHANGED <<db, now, started, issued, jwts>>

(* --------------------------- confirm-email ---------------------------- *)
\* typeof e == ExpiredNonceException: a type name ("string", "object")
\* compared with the constructor function itself
Typeof(e) == e.type
ExpiredNonceExceptionFn == "function ExpiredNonceException"

\* the route's catch block
ConfirmCatch(r, e) ==
    LET r2 == [r EXCEPT !.e = e]
    IN IF Message(e) = "Something went wrong."
       THEN sendClearedCookies(r2, 404)
       ELSE IF Message(e) = "Incorrect-Ecode"
       THEN [r2 EXCEPT !.resp = declineRoute(r2.resp, 400, "")]
       ELSE IF Typeof(e) = ExpiredNonceExceptionFn
       THEN \* await deleteLogin(e.login_id): deleteLogin is bound nowhere
            [r2 EXCEPT !.unhandled = TRUE]
       ELSE sendClearedCookies(r2, 404)

\* steps 1 and 2 of the route: what the synchronous checks throw, if anything
ConfirmSyncThrow(ckName, ckEmail, ckNonce, ecode) ==
    IF Absent \in {ckName, ckEmail, ckNonce}
    THEN Str("Unable to process request.")
    ELSE IF ckName # sterilizeBasicString(ckName) \/ sterilizeBasicString(ckName) = ""
    THEN Str("Something went wrong.")
    ELSE IF ckEmail # sterilizeEmail(ckEmail) \/ sterilizeEmail(ckEmail) = ""
    THEN Str("Something went wrong.")
    ELSE IF ckNonce # sterilizeNonce(ckNonce) \/ sterilizeNonce(ckNonce) = ""
    THEN Str("Something went wrong.")
    ELSE IF sterilizeECode(ecode) # ecode \/ sterilizeECode(ecode) = ""
    THEN Str("Incorrect-Ecode")
    ELSE NoThrow

\* history: the logins whose confirmation has been answered with a 201
Answered201 == {i \in 1..Len(jwts) : jwts[i] > 0}

\* req.on("end"): cookies, sterilization, call getEcodeWLoginNonce
ConfirmStart(ckName, ckEmail, ckNonce, ecode) ==
    /\ Accept
    /\ started' = started + 1
    /\ LET r == [NewReq("confirm", FreeSlot) EXCEPT
                    !.name = ckName, !.email = ckEmail, !.nonce = ckNonce,
                    !.code = ecode, !.seen201 = Answered201]
           e == ConfirmSyncThrow(ckName, ckEmail, ckNonce, ecode)
       IN IF e # NoThrow
          THEN /\ reqs' = reqs
               /\ last' = [ConfirmCatch(r, e) EXCEPT !.pc = "done"]
          ELSE /\ reqs' = reqs \cup {[r EXCEPT !.pc = "resolve"]}
               /\ last' = NoReq
    /\ UNCHANGED <<db, now, issued, jwts>>

\* if(verifiedData.nonce_exp < Date.now())
Expired(nonce_exp, t) == nonce_exp < t

\* faulty variant: the hash of the Confirm-Nonce cookie is not checked
ConfirmCheckThrowNoHash(r, verifiedData, t) ==
    IF ~verifiedData.found
    THEN Str("Something went wrong.")
    ELSE IF Expired(verifiedData.nonce_exp, t)
    THEN ExpiredNonceException(verifiedData.login_id)
    ELSE NoThrow

\* steps 3 and 4: what the checks on the resolved row throw, if anything
ConfirmCheckThrow(r, verifiedData, t) ==
    IF ~verifiedData.found
    THEN Str("Something went wrong.")
    ELSE IF Expired(verifiedData.nonce_exp, t)
    THEN ExpiredNonceException(verifiedData.login_id)
    ELSE IF ~checkHash(r.nonce, verifiedData.nonce_code,
                       toISOString(verifiedData.nonce_exp))
    THEN Str("Something went wrong.")
    ELSE NoThrow

\* getEcodeWLoginNonce resolves; expiry and hash checks; updateLoginConfirmed called
ConfirmResolve(r) ==
    /\ r \in reqs /\ r.kind = "confirm" /\ r.pc = "resolve"
    /\ LET verifiedData == getEcodeWLoginNonce(r.code, r.name, r.email)
           e == ConfirmCheckThrow(r, verifiedData, now)
           r2 == [r EXCEPT !.verifiedData = verifiedData, !.checkedAt = now]
       IN IF e # NoThrow
          THEN Return(r, ConfirmCatch(r2, e))
          ELSE Suspend(r, [r2 EXCEPT !.pc = "updateLoginConfirmed"])
    /\ UNCHANGED <<db, now, started, issued, jwts>>

\* faulty variant: the then-chain is cut after the update, the response follows at once
ConfirmUpdateLoginNoCleanup(r) ==
    /\ r \in reqs /\ r.kind = "confirm" /\ r.pc = "updateLoginConfirmed"
    /\ logins' = updateLoginConfirmed(r.verifiedData.login_id)
    /\ updates' = [updates EXCEPT ![r.verifiedData.login_id] = @ + 1]
    /\ Suspend(r, [r EXCEPT !.pc = "respond"])
    /\ UNCHANGED <<ecodes, nonces, nextEcodeId, rand, now, started, issued, jwts>>

\* faulty variant: the chain starts at deleteNonce, the Login row is never updated
ConfirmUpdateLoginSkipped(r) ==
    /\ r \in reqs /\ r.kind = "confirm" /\ r.pc = "updateLoginConfirmed"
    /\ Suspend(r, [r EXCEPT !.pc = "deleteNonce"])
    /\ UNCHANGED <<db, now, started, issued, jwts>>

\* updateLoginConfirmed(verifiedData.login_id) takes effect; then deleteNonce called
ConfirmUpdateLogin(r) ==
    /\ r \in reqs /\ r.kind = "confirm" /\ r.pc = "updateLoginConfirmed"
    /\ logins' = updateLoginConfirmed(r.verifiedData.login_id)
    /\ updates' = [updates EXCEPT ![r.verifiedData.login_id] = @ + 1]
    /\ Suspend(r, [r EXCEPT !.pc = "deleteNonce",
                            !.trace = Append(@, "updateLoginConfirmed")])
    /\ UNCHANGED <<ecodes, nonces, nextEcodeId, rand, now, started, issued, jwts>>

\* faulty variant: the 201 is sent from the deleteNonce callback, while
\* deleteECode is still to come
ConfirmDeleteNonceThenRespond(r) ==
    /\ r \in reqs /\ r.kind = "confirm" /\ r.pc = "deleteNonce"
    /\ nonces' = deleteNonce(r.verifiedData.ecode_id)
    /\ Suspend(r, [r EXCEPT !.pc = "respond", !.trace = Append(@, "deleteNonce")])
    /\ UNCHANGED <<logins, ecodes, nextEcodeId, rand, now, started, issued,
                   updates, jwts>>

\* faulty variant: the ECode row is removed first, while its Nonce row is
\* still there
ConfirmDeleteECodeFirst(r) ==
    /\ r \in reqs /\ r.kind = "confirm" /\ r.pc = "deleteNonce"
    /\ ecodes' = deleteECode(r.verifiedData.login_id)
    /\ Suspend(r, [r EXCEPT !.pc = "deleteECode", !.trace = Append(@, "deleteNonce")])
    /\ UNCHANGED <<logins, nonces, nextEcodeId, rand, now, started, issued,
                   updates, jwts>>

\* deleteNonce(verifiedData.ecode_id) takes effect; then deleteECode called
ConfirmDeleteNonce(r) ==
    /\ r \in reqs /\ r.kind = "confirm" /\ r.pc = "deleteNonce"
    /\ nonces' = deleteNonce(r.verifiedData.ecode_id)
    /\ Suspend(r, [r EXCEPT !.pc = "deleteECode",
                            !.trace = Append(@, "deleteNonce")])
    /\ UNCHANGED <<logins, ecodes, nextEcodeId, rand, now, started, issued,
                   updates, jwts>>

\* faulty variant: deleteECode is handed the ECode's id and removes by login id
ConfirmDeleteECodeByEcodeId(r) ==
    /\ r \in reqs /\ r.kind = "confirm" /\ r.pc = "deleteECode"
    /\ ecodes' = deleteECode(r.verifiedData.ecode_id)
    /\ Suspend(r, [r EXCEPT !.pc = "respond"])
    /\ UNCHANGED <<logins, nonces, nextEcodeId, rand, now, started, issued,
                   updates, jwts>>

\* deleteECode(verifiedData.login_id) takes effect
ConfirmDeleteECode(r) ==
    /\ r \in reqs /\ r.kind = "confirm" /\ r.pc = "deleteECode"
    /\ ecodes' = deleteECode(r.verifiedData.login_id)
    /\ Suspend(r, [r EXCEPT !.pc = "respond",
                            !.trace = Append(@, "deleteECode")])
    /\ UNCHANGED <<logins, nonces, nextEcodeId, rand, now, started, issued,
                   updates, jwts>>

\* the innermost then-callback: createJWT and the 201 response
ConfirmRespond(r) ==
    /\ r \in reqs /\ r.kind = "confirm" /\ r.pc = "respond"
    /\ LET v == r.verifiedData
           jwtoken == createJWT(v.login_id, v.login_name, v.login_email)
           cookieArr == {Cookie("Access-Token", jwtoken, now + JwtLifetime),
                         Cookie("Confirm-Nonce", "0", 0)}
       IN /\ jwts' = [jwts EXCEPT ![v.login_id] = @ + 1]
          /\ Return(r, [r EXCEPT !.resp = forwardContent(r.resp, 201, "", cookieArr),
                                 !.trace = Append(@, "createJWT")])
    /\ UNCHANGED <<db, now, started, issued>>

\* the storage call the chain waits for rejects: the chain has no rejection
\* handler and is not awaited inside the try, so the remaining callbacks never
\* run, nothing is undone and nothing is written to the response
ConfirmChainRejected(r) ==
    /\ r \in reqs /\ r.kind = "confirm"
    /\ r.pc \in {"updateLoginConfirmed", "deleteNonce", "deleteECode"}
    /\ Return(r, [r EXCEPT !.rejected = r.pc, !.unhandled = TRUE])
    /\ UNCHANGED <<db, now, started, issued, jwts>>

(* ------------------------------ add-comment ---------------------------- *)
\* jwtokenizer.mjs: the tokens createJWT has signed and that have not expired
SignedTokens ==
    {createJWT(i, logins[i].name, logins[i].email) : i \in 1..Len(logins)}
    \cup {EmptyClaimsToken}
\* jwtokenizer.mjs isJWTValid(token, requireClaims)
isJWTValid(jwtToken, requireClaims) ==
    /\ jwtToken \in SignedTokens
    /\ requireClaims => jwtToken # EmptyClaimsToken
\* JSON.parse(jwtToken.payload).client_id
ClientId(jwtToken) ==
    CHOOSE i \in 1..Len(logins) :
        jwtToken = createJWT(i, logins[i].name, logins[i].email)

\* processCommentPost, req.on("end"): what is thrown before createComment
CommentSyncThrow(body) ==
    IF body = "garbage" THEN Obj("Unexpected token", 0)
    ELSE IF body = "empty" THEN Str("comment is empty.")
    ELSE NoThrow

\* the catch block of processCommentPost
CommentCatch(r, e) ==
    [r EXCEPT !.e = e, !.resp = declineRoute(r.resp, 400, "CommentFailed.")]

\* checkPostRoute, url '/add+comment': size test, token test, then
\* processCommentPost up to the call of createComment
CommentStart(bytesRead, token, body) ==
    /\ Accept
    /\ started' = started + 1
    /\ LET r == [NewReq("comment", FreeSlot) EXCEPT
                    !.bytesRead = bytesRead, !.token = token, !.body = body]
       IN IF bytesRead > CommentCap
          THEN /\ reqs' = reqs
               /\ last' = [r EXCEPT !.pc = "done",
                              !.resp = declineRoute(r.resp, 200, "Comment Too Long")]
          ELSE IF token = Absent \/ ~isJWTValid(token, TRUE)
          THEN /\ reqs' = reqs
               /\ last' = [r EXCEPT !.pc = "done",
                              !.resp = declineRoute(r.resp, 401,
                                                    "Un-authorized Access.")]
          ELSE IF CommentSyncThrow(body) # NoThrow
          THEN /\ reqs' = reqs
               /\ last' = [CommentCatch([r EXCEPT !.userId = ClientId(token)],
                                        CommentSyncThrow(body))
                              EXCEPT !.pc = "done"]
          ELSE /\ reqs' = reqs \cup {[r EXCEPT !.userId = ClientId(token),
                                               !.trace = <<"createComment">>,
                                               !.pc = "createComment"]}
               /\ last' = NoReq
    /\ UNCHANGED <<db, now, issued, jwts>>

\* createComment resolves with the created comment, or with nothing
CommentCreate(r, isCommentCreated) ==
    /\ r \in reqs /\ r.kind = "comment" /\ r.pc = "createComment"
    /\ IF isCommentCreated
       THEN Return(r, [r EXCEPT !.resp = forwardContent(r.resp, 200, "created", {})])
       ELSE Return(r, CommentCatch(r, Str("Comment failed to be created.")))
    /\ UNCHANGED <<db, now, started, issued, jwts>>

(* -------------------------------- login -------------------------------- *)
\* the route's catch block
LoginCatch(r, e) ==
    [r EXCEPT !.e = e,
              !.resp = IF e = Str("Un-Authorized")
                       THEN declineRoute(r.resp, 401, "")
                       ELSE declineRoute(r.resp, 500, "Backend Error")]

\* what JSON.parse and the checks before the lookup throw, if anything
LoginSyncThrow(body, name, pwd) ==
    IF body # "json"
    THEN Obj("Unexpected token", 0)
    ELSE IF name = Absent \/ pwd = Absent
    THEN Str("Un-Authorized")
    ELSE IF \/ sterilizeBasicString(name) # name
            \/ sterilizeBasicString(pwd) # pwd
            \/ sterilizeBasicString(name) = ""
            \/ sterilizeBasicString(pwd) = ""
    THEN Str("Un-Authorized")
    ELSE NoThrow

\* req.on("end"): parse, sterilize, call getConfirmedLogin
LoginStart(body, name, pwd) ==
    /\ Accept
    /\ started' = started + 1
    /\ LET r == [NewReq("login", FreeSlot) EXCEPT !.name = name, !.pwd = pwd]
           e == LoginSyncThrow(body, name, pwd)
       IN IF e # NoThrow
          THEN /\ reqs' = reqs
               /\ last' = [LoginCatch(r, e) EXCEPT !.pc = "done"]
          ELSE /\ reqs' = reqs \cup {[r EXCEPT !.pc = "getConfirmedLogin"]}
               /\ last' = NoReq
    /\ UNCHANGED <<db, now, issued, jwts>>

\* faulty variant: the lookup takes any Login with the name and password
LoginLookupAnyLogin(r) ==
    /\ r \in reqs /\ r.kind = "login" /\ r.pc = "getConfirmedLogin"
    /\ LET ids == {i \in 1..Len(logins) :
                      logins[i].name = r.name /\ logins[i].pwd = r.pwd}
       IN IF ids = {}
          THEN Return(r, LoginCatch(r, Str("Un-Authorized")))
          ELSE LET id == CHOOSE i \in ids : TRUE
                   jwtoken == createJWT(id, logins[id].name, logins[id].email)
                   cookieStr == {Cookie("Access-Token", jwtoken, now + JwtLifetime)}
               IN Return(r, [r EXCEPT !.loginId = id,
                                !.resp = forwardContent(r.resp, 200, "", cookieStr)])
    /\ UNCHANGED <<db, now, started, issued, jwts>>

\* getConfirmedLogin resolves; createJWT and the 200 response, or Un-Authorized
LoginLookup(r) ==
    /\ r \in reqs /\ r.kind = "login" /\ r.pc = "getConfirmedLogin"
    /\ IF ConfirmedLoginIds(r.name, r.pwd) = {}
       THEN Return(r, LoginCatch(r, Str("Un-Authorized")))
       ELSE LET id == CHOOSE i \in ConfirmedLoginIds(r.name, r.pwd) : TRUE
                jwtoken == createJWT(id, logins[id].name, logins[id].email)
                cookieStr == {Cookie("Access-Token", jwtoken, now + JwtLifetime)}
            IN Return(r, [r EXCEPT !.loginId = id,
                             !.resp = forwardContent(r.resp, 200, "", cookieStr)])
    /\ UNCHANGED <<db, now, started, issued, jwts>>

(* ------------------------------- inputs -------------------------------- *)
\* a signup body: well-formed, or with one field empty or one the sterilizer
\* changes
SignupInputs ==
    (Names \X SignupEmails \X SignupPwds)
    \cup {<<BadName, "a@b.com", "p1">>, <<"bo", BadEmail, "p1">>,
          <<"bo", "a@b.com", BadPwd>>,
          <<"", "a@b.com", "p1">>, <<"bo", "", "p1">>, <<"bo", "a@b.com", "">>}

\* a confirm-email request built from what a signup handed out (its cookies
\* and its code): the cookies as issued or with one of them exchanged for
\* another well-formed value, sent with any code; or one cookie dropped or
\* garbled, sent with the signup's code
IssuedNonces == {s.nonce : s \in issued}
\* a public nonce made of a stored secret and a later expiration
ExtendedNonces ==
    {hashNonce(n.secret_code, toISOString(n.exp + 1)) : n \in nonces}
ConfirmInputs ==
    UNION {
        ( ( {<<s.name, s.email, s.nonce>>}
            \cup {<<n, s.email, s.nonce>> : n \in Names}
            \cup {<<s.name, m, s.nonce>> : m \in Emails}
            \cup {<<s.name, s.email, h>> :
                     h \in IssuedNonces \cup ExtendedNonces \cup {ForgedNonce}} )
          \X (Codes \cup {BadCode}) )
        \cup
        ( ( {<<n, s.email, s.nonce>> : n \in {BadName, Absent}}
            \cup {<<s.name, m, s.nonce>> : m \in {BadEmail, Absent}}
            \cup {<<s.name, s.email, h>> : h \in {BadNonce, Absent}} )
          \X {s.code} ) : s \in issued }

\* a login body: well-formed, one field missing or garbled, or not JSON at all
LoginInputs ==
    ({"json"} \X Names \X LoginPwds)
    \cup {<<"json", BadName, "p1">>, <<"json", Absent, "p1">>,
          <<"json", "al", BadPwd>>, <<"garbage", Absent, Absent>>}

\* an add-comment request: within the size cap or one byte over it; with no
\* Access-Token, one that fails validation, or one that confirm-email issued
IssuedTokens ==
    {createJWT(i, logins[i].name, logins[i].email) :
        i \in {j \in 1..Len(logins) : jwts[j] > 0}}
CommentInputs ==
    ({CommentCap} \X {Absent, BadSigToken, ExpiredToken, EmptyClaimsToken}
                  \X {"comment"})
    \cup ({CommentCap + 1} \X {Absent} \X {"comment"})
    \cup ({CommentCap, CommentCap + 1} \X IssuedTokens \X {"comment"})
    \cup ({CommentCap} \X IssuedTokens \X CommentBodies)

(* ------------------------------- clock -------------------------------- *)
Tick ==
    /\ now < MaxTime
    /\ now' = now + 1
    /\ last' = NoReq
    /\ UNCHANGED <<db, started, reqs, issued, jwts>>

Next ==
    \/ \E i \in SignupInputs : SignupStart(i[1], i[2], i[3])
    \/ \E r \in reqs : SignupCreateLogin(r)
    \/ \E r \in reqs, c \in Codes : SignupCreateECode(r, c)
    \/ \E r \in reqs : SignupCreateNonce(r)
    \/ \E r \in reqs, sent \in BOOLEAN : SignupSendMail(r, sent)
    \/ \E i \in ConfirmInputs : ConfirmStart(i[1][1], i[1][2], i[1][3], i[2])
    \/ \E r \in reqs : ConfirmResolve(r)
    \/ \E r \in reqs : ConfirmUpdateLogin(r)
    \/ \E r \in reqs : ConfirmDeleteNonce(r)
    \/ \E r \in reqs : ConfirmDeleteECode(r)
    \/ \E r \in reqs : ConfirmRespond(r)
    \/ \E r \in reqs : ConfirmChainRejected(r)
    \/ \E i \in LoginInputs : LoginStart(i[1], i[2], i[3])
    \/ \E r \in reqs : LoginLookup(r)
    \/ \E i \in CommentInputs : CommentStart(i[1], i[2], i[3])
    \/ \E r \in reqs, created \in BOOLEAN : CommentCreate(r, created)
    \/ Tick

Spec == Init /\ [][Next]_vars

\* a suspended handler goes on: the promise it awaits settles
Continue ==
    \E r \in reqs :
        \/ SignupCreateLogin(r)
        \/ \E c \in Codes : SignupCreateECode(r, c)
        \/ SignupCreateNonce(r)
        \/ \E sent \in BOOLEAN : SignupSendMail(r, sent)
        \/ ConfirmResolve(r)
        \/ ConfirmUpdateLogin(r)
        \/ ConfirmDeleteNonce(r)
        \/ ConfirmDeleteECode(r)
        \/ ConfirmRespond(r)
        \/ ConfirmChainRejected(r)
        \/ LoginLookup(r)
        \/ \E created \in BOOLEAN : CommentCreate(r, created)
\* every awaited promise settles in the end and the event loop then runs the
\* continuation; requests arrive, and the clock is read, at any time or never
LiveSpec == Spec /\ WF_vars(Continue)
SpecEmpty == InitEmpty /\ [][Next]_vars

(* ======================================================================= *)
(*                               Claims                                    *)
(* ======================================================================= *)
\* the failure classes of the specification, read off the value thrown
Outcome(r) ==
    IF r.e = NoThrow THEN "none"
    ELSE IF r.e \in {Str("Something went wrong."), Str("Unable to process request.")}
    THEN "StateCorrupted"
    ELSE IF r.e = Str("Incorrect-Ecode") THEN "InvalidCode"
    ELSE IF r.e.type = "object" /\ r.e.value = "Expired-Nonce" THEN "ExpiredNonce"
    ELSE "other"

Confirms == {r \in reqs \cup {last} : r.kind = "confirm"}
\* r carries exactly the cookies and the code that signup s handed out
Honest(r, s) ==
    r.name = s.name /\ r.email = s.email /\ r.nonce = s.nonce /\ r.code = s.code
\* r's three cookies are not the three cookies of any signup
Tampered(r) ==
    \A s \in issued : <<r.name, r.email, r.nonce>> # <<s.name, s.email, s.nonce>>
\* r has passed every check and is in, or through, the mutation chain
PastChecks(r) ==
    r.pc \in {"updateLoginConfirmed", "deleteNonce", "deleteECode", "respond"}
    \/ (r.pc = "done" /\ r.e = NoThrow /\ r.kind = "confirm")
HasCookie(resp, n) == \E c \in resp.cookies : c.name = n
RowsOfLogin(id) ==
    {c \in ecodes : c.login_id = id}
    \cup {n \in nonces : \E c \in ecodes : c.login_id = id /\ n.ecode_id = c.id}

C2_ConfirmedOnlyByOwnRequest ==
    [][\A i \in 1..Len(logins) :
          (~logins[i].confirmed /\ logins'[i].confirmed)
          => \E r \in reqs, s \in issued :
                /\ r.kind = "confirm" /\ r.pc = "updateLoginConfirmed"
                /\ s.login_id = i /\ Honest(r, s)
                /\ r.checkedAt < s.exp]_vars

\* The part of C2 that binds the code to the signup: the same statement with
\* the expiry check as the route makes it (not later than the expiration).
C2_Binding ==
    [][\A i \in 1..Len(logins) :
          (~logins[i].confirmed /\ logins'[i].confirmed)
          => \E r \in reqs, s \in issued :
                /\ r.kind = "confirm" /\ r.pc = "updateLoginConfirmed"
                /\ s.login_id = i /\ Honest(r, s)
                /\ r.checkedAt <= s.exp]_vars

C4_ExpiredFromExpiration ==
    \A r \in Confirms, s \in issued :
        ( /\ Honest(r, s)
          /\ r.verifiedData.found
          /\ r.checkedAt >= s.exp )
        => Outcome(r) = "ExpiredNonce" /\ ~PastChecks(r)

\* C5: a confirm-email request that arrives after a confirmation of the same
\* login has been answered with 201, carrying the same code and cookies, does
\* not resolve, ends StateCorrupted, never reaches updateLoginConfirmed and
\* gets no Access-Token.
C5_SecondConfirmFails ==
    \A r \in Confirms, s \in issued :
        (Honest(r, s) /\ s.login_id \in r.seen201)
        => /\ ~PastChecks(r)
           /\ ~r.verifiedData.found
           /\ r.pc = "done" => /\ Outcome(r) = "StateCorrupted"
                               /\ r.resp.status # 201
                               /\ ~HasCookie(r.resp, "Access-Token")

C5_Witness ==
    \E s \in issued :
        /\ last.kind = "confirm" /\ Honest(last, s) /\ s.login_id \in last.seen201
        /\ Outcome(last) = "StateCorrupted"
        /\ updates[s.login_id] = 1

\* C6: whatever the interleaving of overlapping confirm-email requests, each
\* Login is set confirmed at most once and gets at most one session token
\* from confirm-email.
C6_ConfirmedOnce ==
    \A i \in 1..Len(logins) : updates[i] <= 1 /\ jwts[i] <= 1

\* C7: a well-formed login request for a name whose Login is unconfirmed, or
\* for a name no Login has, ends Un-Authorized, and the response is the same
\* in both cases: status 401, empty body, no Set-Cookie.
C7_UnconfirmedLooksUnknown ==
    ( /\ last.kind = "login"
      /\ last.name \in Names /\ last.pwd \in LoginPwds
      /\ \A i \in 1..Len(logins) :
            logins[i].name = last.name => ~logins[i].confirmed )
    => /\ last.e = Str("Un-Authorized")
       /\ last.resp = [status |-> 401, body |-> "", cookies |-> {}]

C7_Witness ==
    /\ last.kind = "login" /\ last.resp.status = 401
    /\ \E i \in 1..Len(logins) :
          /\ logins[i].name = last.name /\ logins[i].pwd = last.pwd
          /\ ~logins[i].confirmed

C9_AtMostFourAttempts ==
    \A r \in reqs \cup {last} : r.kind = "signup" => r.tries <= 4

\* C10: a confirm-email request with the three cookies of a signup and a
\* code that fails sterilization ends InvalidCode and is answered 400, with
\* no Set-Cookie clearing the signup cookies.
C10_InvalidCodeIs400 ==
    ( /\ last.kind = "confirm"
      /\ ~Tampered(last)
      /\ last.code \notin Codes )
    => /\ Outcome(last) = "InvalidCode"
       /\ last.resp.status = 400
       /\ last.resp.cookies = {}

\* C11: every confirm-email request that ends StateCorrupted (a signup cookie
\* missing or failing sterilization, the code not resolving, or the public
\* nonce not matching) is answered 404 with Set-Cookie headers that clear
\* Username, Attempt-Email and Confirm-Nonce.
C11_StateCorruptedIs404 ==
    (last.kind = "confirm" /\ Outcome(last) = "StateCorrupted")
    => /\ last.resp.status = 404
       /\ \A n \in {"Username", "Attempt-Email", "Confirm-Nonce"} :
             Cookie(n, "0", 0) \in last.resp.cookies

\* a signup body with a field that is empty or that sterilization changes
BadSignupBody(r) ==
    \/ r.name = "" \/ sterilizeBasicString(r.name) # r.name
    \/ r.email = "" \/ sterilizeEmail(r.email) # r.email
    \/ r.pwd = "" \/ sterilizeBasicString(r.pwd) # r.pwd

\* C12: a signup request in which name, email or password is empty or is
\* changed by sterilization is answered 400 in the step that accepts it and
\* has no other effect: no storage call is made (no Login, ECode or Nonce row
\* is created), no signup cookie is set, no confirmation email is sent.
C12_BadSignupHasNoEffect ==
    [](\A r \in reqs : r.kind = "signup" => ~BadSignupBody(r))
    /\ [][(last'.kind = "signup" /\ BadSignupBody(last'))
          => /\ last'.resp.status = 400
             /\ last'.resp.cookies = {}
             /\ ~last'.mailed
             /\ last'.loginId = 0 /\ last'.tries = 0 /\ last'.ecodeId = 0
             /\ UNCHANGED <<logins, ecodes, nonces, issued, reqs>>]_vars

C12_Witness ==
    /\ last.kind = "signup" /\ last.pwd = BadPwd /\ last.name = "bo"
    /\ last.resp.status = 400
    /\ LoginNameFree("bo")

\* C13: for every add-comment request whose Access-Token cookie is missing or
\* fails validation, createComment is never called and the response status
\* is 401, whatever the size or content of the request body.
C13_NoTokenIs401 ==
    \A r \in reqs \cup {last} :
        (r.kind = "comment" /\ (r.token = Absent \/ ~isJWTValid(r.token, TRUE)))
        => /\ r.trace = <<>>
           /\ r.pc = "done" => r.resp.status = 401

\* the live (ECode, Nonce) pairs of Login i
PairsOfLogin(i) ==
    {<<c, n>> \in ecodes \X nonces : c.login_id = i /\ n.ecode_id = c.id}

\* C14: in every reachable state each Login has at most one live (ECode,
\* Nonce) pair, and a Login with confirmed=true has no ECode row and no
\* Nonce row.
C14_OnePairNoneWhenConfirmed ==
    \A i \in 1..Len(logins) :
        /\ Cardinality(PairsOfLogin(i)) <= 1
        /\ logins[i].confirmed => RowsOfLogin(i) = {}

\* The first half of C14 on its own: at most one ECode row, and so at most
\* one live pair, per Login.
C14_AtMostOnePair ==
    \A i \in 1..Len(logins) :
        /\ Cardinality({c \in ecodes : c.login_id = i}) <= 1
        /\ Cardinality(PairsOfLogin(i)) <= 1

\* a confirm-email request is still working on Login i
ConfirmInFlight(i) ==
    \E r \in reqs : r.kind = "confirm" /\ PastChecks(r) /\ r.verifiedData.login_id = i

\* C15: the confirm-email mutation sequence is all-or-nothing: when no
\* confirm-email request is working on a Login any more (its chain ran to the
\* end, or stopped because a storage call failed), the Login is not confirmed
\* with its Nonce or ECode row still there.
C15_AllOrNothing ==
    \A i \in 1..Len(logins) :
        (logins[i].confirmed /\ ~ConfirmInFlight(i)) => RowsOfLogin(i) = {}

\* C16: a signup that fails because Login creation yields no id or because
\* ECode generation is exhausted is answered with status 500, not with the
\* 400 used for validation failures.
C16_GenerationFailureIs500 ==
    ( /\ last.kind = "signup"
      /\ ~BadSignupBody(last)
      /\ last.e \in {Str("Login was not added."), Str("Ecode was not added.")} )
    => last.resp.status = 500

\* the effects of a successful confirm-email, in the order of the then-chain
ChainOrder == <<"updateLoginConfirmed", "deleteNonce", "deleteECode", "createJWT">>

C19_NoLoginStopsSignup ==
    \A r \in reqs \cup {last} :
        ( /\ r.kind = "signup"
          /\ ~BadSignupBody(r)
          /\ r.pc # "createLogin"
          /\ r.loginId = 0 )
        => /\ r.tries = 0
           /\ r.pc \notin {"createNonce", "sendMail"}
           /\ r.resp.cookies = {}
           /\ ~r.mailed

\* the sendMail of a signup resolved with no result
MailFailed(r) ==
    r.kind = "signup" /\ r.e = Str("Unable to send email to activate email")

HashDecides(r) ==
    /\ r.kind = "confirm" /\ r.pc \notin {"none", "resolve"}
    /\ r.verifiedData.found
    /\ ~Expired(r.verifiedData.nonce_exp, r.checkedAt)

C21_WitnessOtherSecret ==
    \E s \in issued :
        /\ HashDecides(last) /\ last.nonce = s.nonce
        /\ s.login_id # last.verifiedData.login_id
        /\ Outcome(last) = "StateCorrupted"

\* what the client of r sees: the response, or that none was written
Seen(r) == <<r.resp, r.unhandled>>

\* C22: a confirm-email request that hits an expired nonce ends ExpiredNonce
\* and the route answers it on a branch of its own: what its client sees
\* differs from what the client of a request with a nonce mismatch
\* (StateCorrupted) sees.
C22_ExpiredIsDistinct ==
    (last.kind = "confirm" /\ Outcome(last) = "ExpiredNonce")
    => /\ last.resp.status # 0
       /\ Seen(last) # Seen(ConfirmCatch([last EXCEPT !.resp = NoResp,
                                                      !.unhandled = FALSE],
                                         Str("Something went wrong.")))

\* a signup request is still working on Login i
SignupInFlight(i) == \E r \in reqs : r.kind = "signup" /\ r.loginId = i

\* C23: once the signup request that created it has finished, successfully
\* or not, every unconfirmed Login has a live ECode and Nonce pair.
C23_UnconfirmedHasPair ==
    \A i \in 1..Len(logins) :
        (~logins[i].confirmed /\ ~SignupInFlight(i)) => PairsOfLogin(i) # {}

\* the storage state a confirm-email request could touch
rows == <<logins, ecodes, nonces, nextEcodeId, rand, issued>>

\* C24: a confirm-email request that hits an expired nonce (its expiry test
\* ran at now >= nonce.expires_at) leaves the Login, ECode and Nonce rows as
\* they were: it makes no storage mutation at any step, so the login is
\* neither confirmed nor deleted and no new code or nonce is issued.
C24_ExpiredLeavesRows ==
    [][( /\ last'.kind = "confirm"
         /\ last'.verifiedData.found
         /\ last'.checkedAt >= last'.verifiedData.nonce_exp )
       => /\ UNCHANGED rows
          /\ last'.trace = <<>>
          /\ last'.rejected = ""]_vars

\* C24 for the requests the route itself takes as expired (its test ran at
\* now > nonce.expires_at).
C24_ThrownExpiredLeavesRows ==
    [][( /\ last'.kind = "confirm"
         /\ last'.verifiedData.found
         /\ last'.checkedAt > last'.verifiedData.nonce_exp )
       => /\ UNCHANGED rows
          /\ last'.trace = <<>>
          /\ last'.rejected = ""
          /\ Outcome(last') = "ExpiredNonce"]_vars

\* C25: every request the server accepts gets exactly one response: a
\* handler never ends without having written its response, and every
\* suspended handler ends in the end.
C25_EveryRequestAnswered ==
    /\ [](last.pc = "done" => last.resp.status # 0 /\ ~last.unhandled)
    /\ \A k \in 1..MaxInFlight :
          (\E r \in reqs : r.rid = k)
          ~> (last.rid = k /\ last.pc = "done" /\ last.resp.status # 0)

\* C25 for the routes other than confirm-email: login, signup and add-comment
\* requests are all answered.
C25_OtherRoutesAnswered ==
    /\ []((last.pc = "done" /\ last.kind # "confirm")
          => last.resp.status # 0 /\ ~last.unhandled)
    /\ \A k \in 1..MaxInFlight :
          (\E r \in reqs : r.rid = k /\ r.kind # "confirm")
          ~> ( /\ last.rid = k /\ last.pc = "done" /\ last.kind # "confirm"
               /\ last.resp.status # 0 )
====
